---- MODULE Spec2Model ----
(***************************************************************************)
(* Client side of the Replicant replication protocol                       *)
(* (src/unnamed/part_001: class Replicant, src/src/shared.ts: proxying,    *)
(* ownership and operation application).                                   *)
(*                                                                         *)
(* JavaScript values are modelled as trees.  A structure (object or array) *)
(* carries the metadata that shared.ts keeps for it in metadataMap /       *)
(* proxyMetadataMap: its owning Replicant and its path.  A structure and   *)
(* its Proxy are one node: every trap passes through to the target while   *)
(* _ignoreProxy is set, and proxyRecursive resolves both to one metadata.  *)
(* Strings (paths, keys) are sequences of one-character strings.           *)
(***************************************************************************)
EXTENDS Integers, Sequences, FiniteSets, TLC

(***************************************************************************)
(* Bounds of the model.                                                    *)
(***************************************************************************)
MaxRev == 1
MaxLen == 2
MaxDisconnects == 1
MaxPending == 1
MaxQueue == 2
MaxPathLen == 3

(***************************************************************************)
(* Values.                                                                 *)
(***************************************************************************)
Reps == {"A", "B"}
NoOwner == "none"

Undef == [t |-> "undefined"]
Null == [t |-> "null"]
Num(n) == [t |-> "number", n |-> n]
\* a structure without metadata (never seen by proxyRecursive); f maps keys
\* (strings) to values; an array's elements are the keys "0", "1", ...
RawObj(f) == [t |-> "object", owner |-> NoOwner, path |-> << >>, f |-> f]
RawArr(f) == [t |-> "array", owner |-> NoOwner, path |-> << >>, f |-> f]

\* typeof value === 'object' && value !== null
IsStruct(v) == v.t \in {"object", "array"}
\* JavaScript truthiness: !replicant.value, if (this.value)
Truthy(v) == IsStruct(v) \/ (v.t = "number" /\ v.n # 0)

Digits == <<"0", "1", "2", "3", "4", "5", "6", "7", "8", "9">>
\* the key of array index i (0-based), for i < 10
IndexKey(i) == <<Digits[i + 1]>>
IsIndexKey(k) == Len(k) = 1 /\ \E i \in 1..Len(Digits) : Digits[i] = k[1]
\* Array.length of a dense array: the number of index keys
ArrLen(v) == Cardinality({k \in DOMAIN v.f : IsIndexKey(k)})

\* `for (const key in value)`: index keys ascending, then the other keys
KeyOrder == <<IndexKey(0), IndexKey(1), IndexKey(2), IndexKey(3),
              <<"a">>, <<"b">>, <<"c">>, <<"a", "/", "b">>>>
KeysOf(v) == SelectSeq(KeyOrder, LAMBDA k : k \in DOMAIN v.f)

\* f with key k mapped to x (added if absent)
Put(f, k, x) == [j \in (DOMAIN f) \cup {k} |-> IF j = k THEN x ELSE f[j]]
\* f without key k
Drop(f, k) == [j \in (DOMAIN f) \ {k} |-> f[j]]
EmptyF == [j \in {} |-> Undef]

(***************************************************************************)
(* Path codec (shared.ts).                                                 *)
(***************************************************************************)
RECURSIVE Split(_)
\* String.prototype.split('/')
Split(s) ==
  IF \A i \in 1..Len(s) : s[i] # "/"
  THEN <<s>>
  ELSE LET i == CHOOSE i \in 1..Len(s) :
                  s[i] = "/" /\ \A j \in 1..(i - 1) : s[j] # "/"
       IN <<SubSeq(s, 1, i - 1)>> \o Split(SubSeq(s, i + 1, Len(s)))

RECURSIVE Unescape(_)
\* part.replace(/~1/g, '/')
Unescape(part) ==
  IF part = << >> THEN << >>
  ELSE IF Len(part) >= 2 /\ part[1] = "~" /\ part[2] = "1"
       THEN <<"/">> \o Unescape(SubSeq(part, 3, Len(part)))
       ELSE <<part[1]>> \o Unescape(Tail(part))

RECURSIVE Escape(_)
\* key.replace(/\//g, '~1')
Escape(key) ==
  IF key = << >> THEN << >>
  ELSE IF key[1] = "/"
       THEN <<"~", "1">> \o Escape(Tail(key))
       ELSE <<key[1]>> \o Escape(Tail(key))

RECURSIVE Join(_)
\* Array.prototype.join('/')
Join(arr) ==
  IF arr = << >> THEN << >>
  ELSE IF Len(arr) = 1 THEN arr[1]
       ELSE arr[1] \o <<"/">> \o Join(Tail(arr))

pathStrToPathArr(path) ==
  LET parts == Split(SubSeq(path, 2, Len(path)))
      pathArr == [i \in 1..Len(parts) |-> Unescape(parts[i])]
  IN IF Len(pathArr) = 1 /\ pathArr[1] = << >> THEN << >> ELSE pathArr

pathArrToPathStr(pathArr) ==
  LET path == Join(pathArr)
  IN IF path = << >> \/ path[1] # "/" THEN <<"/">> \o path ELSE path

joinPathParts(part1, part2) ==
  IF part1 # << >> /\ part1[Len(part1)] = "/"
  THEN part1 \o part2
  ELSE part1 \o <<"/">> \o part2

(***************************************************************************)
(* Ownership and recursive proxying (shared.ts).                           *)
(***************************************************************************)
\* TRUE when assertSingleOwner returns, FALSE when it throws
assertSingleOwner(replicant, value) ==
  value.owner \in {NoOwner, replicant}

RECURSIVE proxyRecursive(_, _, _)
RECURSIVE ProxyKeys(_, _, _, _)
\* [ok, v]: ok = FALSE when an ownership error was thrown; v is the value as
\* the call left it (the metadata registered and the members replaced so far)
proxyRecursive(replicant, value, path) ==
  IF ~IsStruct(value) THEN [ok |-> TRUE, v |-> value]
  ELSE IF ~assertSingleOwner(replicant, value) THEN [ok |-> FALSE, v |-> value]
  ELSE ProxyKeys(replicant,
                 [value EXCEPT !.owner = replicant, !.path = path],
                 path, KeysOf(value))

\* the for-in loop of proxyRecursive over the keys not yet visited
ProxyKeys(replicant, value, path, keys) ==
  IF keys = << >> THEN [ok |-> TRUE, v |-> value]
  ELSE LET key == Head(keys)
           escapedKey == Escape(key)
           childPath == IF path # << >>
                        THEN joinPathParts(path, escapedKey)
                        ELSE escapedKey
           res == proxyRecursive(replicant, value.f[key], childPath)
           next == [value EXCEPT !.f[key] = res.v]
       IN IF res.ok
          THEN ProxyKeys(replicant, next, path, Tail(keys))
          ELSE [ok |-> FALSE, v |-> next]

RECURSIVE clone(_)
\* clone(value): a deep copy, made of structures no Replicant owns
clone(value) ==
  IF ~IsStruct(value) THEN value
  ELSE [t |-> value.t, owner |-> NoOwner, path |-> << >>,
        f |-> [k \in DOMAIN value.f |-> clone(value.f[k])]]

RECURSIVE LooseNum(_)
\* ToNumber(ToPrimitive(v)) of the abstract equality comparison v == number,
\* as a set: empty for NaN
LooseNum(v) ==
  CASE v.t = "number" -> {v.n}
    [] v.t \in {"undefined", "null"} -> {0}
    [] v.t = "object" -> {}
    [] v.t = "array" ->
         IF DOMAIN v.f = {} THEN {0}
         ELSE IF DOMAIN v.f = {IndexKey(0)} THEN LooseNum(v.f[IndexKey(0)])
         ELSE {}

RECURSIVE equal(_, _)
\* deep-equal without {strict: true}: leaves are compared with ==
equal(a, b) ==
  IF IsStruct(a) /\ IsStruct(b)
  THEN /\ a.t = b.t
       /\ DOMAIN a.f = DOMAIN b.f
       /\ \A k \in DOMAIN a.f : equal(a.f[k], b.f[k])
  ELSE IF IsStruct(a) THEN b.t = "number" /\ LooseNum(a) = {b.n}
  ELSE IF IsStruct(b) THEN a.t = "number" /\ LooseNum(b) = {a.n}
  ELSE IF a.t = "number" \/ b.t = "number" THEN a = b
  ELSE TRUE   \* undefined == null

(***************************************************************************)
(* object-path, as applyOperation uses it (shared.ts, import objectPath).  *)
(***************************************************************************)
\* getShallowProperty: an own property, or undefined
OwnProp(obj, key) ==
  IF IsStruct(obj) /\ key \in DOMAIN obj.f THEN obj.f[key] ELSE Undef

RECURSIVE PathGet(_, _)
\* objectPath.get(obj, path)
PathGet(obj, path) ==
  IF path = << >> THEN obj
  ELSE IF obj.t \in {"undefined", "null"} THEN Undef
  ELSE LET nextObj == OwnProp(obj, Head(path))
       IN IF nextObj = Undef THEN Undef
          ELSE IF Len(path) = 1 THEN nextObj
          ELSE PathGet(nextObj, Tail(path))

RECURSIVE PathHas(_, _)
\* objectPath.has(obj, path)
PathHas(obj, path) ==
  IF path = << >> THEN Truthy(obj)
  ELSE /\ IsStruct(obj)
       /\ Head(path) \in DOMAIN obj.f
       /\ (Len(path) = 1 \/ PathHas(obj.f[Head(path)], Tail(path)))

RECURSIVE PathSet(_, _, _)
\* objectPath.set(obj, path, value) for a non-empty path: [ok, v, old].
\* ok = FALSE: a TypeError (a property written on a primitive or on null;
\* object-path is strict-mode code); v is obj as the call left it, old the
\* value returned
PathSet(obj, path, value) ==
  IF ~IsStruct(obj) THEN [ok |-> FALSE, v |-> obj, old |-> Undef]
  ELSE LET currentPath == Head(path)
           currentValue == OwnProp(obj, currentPath)
       IN IF Len(path) = 1
          THEN [ok |-> TRUE,
                v |-> [obj EXCEPT !.f = Put(obj.f, currentPath, value)],
                old |-> currentValue]
          ELSE LET child == IF currentValue = Undef
                            THEN RawObj(EmptyF)
                            ELSE currentValue
                   res == PathSet(child, Tail(path), value)
               IN [ok |-> res.ok,
                   v |-> [obj EXCEPT !.f = Put(obj.f, currentPath, res.v)],
                   old |-> res.old]

RECURSIVE PathReplace(_, _, _)
\* obj with the node at path (which PathGet finds) replaced by node: the
\* effect on the tree of mutating that node in place
PathReplace(obj, path, node) ==
  IF path = << >> THEN node
  ELSE [obj EXCEPT !.f[Head(path)] = PathReplace(obj.f[Head(path)], Tail(path), node)]

(***************************************************************************)
(* Arrays.                                                                 *)
(***************************************************************************)
ARRAY_MUTATOR_METHODS ==
  {"copyWithin", "fill", "pop", "push", "reverse", "shift", "sort", "splice",
   "unshift"}

\* the elements of an array, in index order
Elements(arr) == [i \in 1..ArrLen(arr) |-> arr.f[IndexKey(i - 1)]]
\* arr with its elements replaced by the sequence s
WithElements(arr, s) ==
  [arr EXCEPT !.f =
     [k \in {j \in DOMAIN arr.f : ~IsIndexKey(j)} \cup {IndexKey(i - 1) : i \in 1..Len(s)} |->
        IF IsIndexKey(k)
        THEN s[CHOOSE i \in 1..Len(s) : IndexKey(i - 1) = k]
        ELSE arr.f[k]]]

\* arr[method].apply(arr, args) for the mutators the model delivers:
\* [arr, result]
ArrayApply(arr, method, args) ==
  LET s == Elements(arr)
  IN CASE method = "push" ->
            [arr |-> WithElements(arr, s \o args),
             result |-> Num(Len(s) + Len(args))]
       [] method = "unshift" ->
            [arr |-> WithElements(arr, args \o s),
             result |-> Num(Len(s) + Len(args))]
       [] method = "pop" ->
            IF s = << >> THEN [arr |-> arr, result |-> Undef]
            ELSE [arr |-> WithElements(arr, SubSeq(s, 1, Len(s) - 1)),
                  result |-> s[Len(s)]]
       [] method = "shift" ->
            IF s = << >> THEN [arr |-> arr, result |-> Undef]
            ELSE [arr |-> WithElements(arr, Tail(s)), result |-> s[1]]

(***************************************************************************)
(* Apply-Operation (shared.ts).  An operation is [path, method, prop,      *)
(* args]: for an array mutator args are the call's arguments; for add and  *)
(* update prop is args.prop and args[1] is args.newValue; for delete prop  *)
(* is args.prop.                                                           *)
(***************************************************************************)
Bool(b) == [t |-> "boolean", b |-> b]

\* [ok, value, ignoreProxy, result]: the Replicant's value and _ignoreProxy
\* flag as the call left them; ok = FALSE when it threw
applyOperation(replicant, value, ignoreProxy, operation) ==
  IF ~Truthy(value)
  THEN [ok |-> FALSE, value |-> value, ignoreProxy |-> ignoreProxy,
        result |-> Undef]
  ELSE
    LET path == pathStrToPathArr(operation.path)
        thrown == [ok |-> FALSE, value |-> value, ignoreProxy |-> TRUE,
                   result |-> Undef]
    IN IF operation.method \in ARRAY_MUTATOR_METHODS
       THEN LET arr == PathGet(value, path)
            IN IF arr.t # "array" THEN thrown
               ELSE LET applied == ArrayApply(arr, operation.method, operation.args)
                        pr == proxyRecursive(replicant, applied.arr, operation.path)
                    IN [ok |-> pr.ok,
                        value |-> PathReplace(value, path, pr.v),
                        ignoreProxy |-> ~pr.ok,
                        result |-> applied.result]
       ELSE CASE operation.method \in {"add", "update"} ->
                   LET full == Append(path, operation.prop)
                       newValue == operation.args[1]
                       pr == IF IsStruct(newValue)
                             THEN proxyRecursive(replicant, newValue,
                                                 pathArrToPathStr(full))
                             ELSE [ok |-> TRUE, v |-> newValue]
                       st == PathSet(value, full, pr.v)
                   IN IF ~pr.ok THEN thrown
                      ELSE [ok |-> st.ok, value |-> st.v,
                            ignoreProxy |-> ~st.ok, result |-> st.old]
              [] operation.method = "delete" ->
                   IF path = << >> \/ PathHas(value, path)
                   THEN LET target == PathGet(value, path)
                        IN IF target.t \in {"undefined", "null"} THEN thrown
                           ELSE [ok |-> TRUE,
                                 value |->
                                   IF IsStruct(target)
                                   THEN PathReplace(value, path,
                                          [target EXCEPT !.f = Drop(target.f, operation.prop)])
                                   ELSE value,
                                 ignoreProxy |-> FALSE,
                                 result |-> Bool(TRUE)]
                   ELSE [ok |-> TRUE, value |-> value, ignoreProxy |-> FALSE,
                         result |-> Undef]
              [] OTHER -> thrown

RECURSIVE ApplyAllButLast(_, _, _, _, _)
\* the loop stops one operation short of the end of a longer batch
ApplyAllButLast(replicant, value, ignoreProxy, operations, done) ==
  IF operations = << >> \/ (Len(operations) = 1 /\ done # << >>)
  THEN [ok |-> TRUE, value |-> value, ignoreProxy |-> ignoreProxy,
        operations |-> done]
  ELSE LET operation == Head(operations)
           res == applyOperation(replicant, value, ignoreProxy, operation)
           withResult == [path |-> operation.path, method |-> operation.method,
                          prop |-> operation.prop, args |-> operation.args,
                          result |-> res.result]
       IN IF res.ok
          THEN ApplyAllButLast(replicant, res.value, res.ignoreProxy,
                               Tail(operations), Append(done, withResult))
          ELSE [ok |-> FALSE, value |-> res.value,
                ignoreProxy |-> res.ignoreProxy, operations |-> done]

RECURSIVE ApplyAll(_, _, _, _, _)
\* data.operations.forEach(operation => operation.result = applyOperation(...)):
\* [ok, value, ignoreProxy, operations]; operations are the ones applied, with
\* their results; the loop ends at the first operation that throws
ApplyAll(replicant, value, ignoreProxy, operations, done) ==
  IF operations = << >>
  THEN [ok |-> TRUE, value |-> value, ignoreProxy |-> ignoreProxy,
        operations |-> done]
  ELSE LET operation == Head(operations)
           res == applyOperation(replicant, value, ignoreProxy, operation)
           withResult == [path |-> operation.path, method |-> operation.method,
                          prop |-> operation.prop, args |-> operation.args,
                          result |-> res.result]
       IN IF res.ok
          THEN ApplyAll(replicant, res.value, res.ignoreProxy,
                        Tail(operations), Append(done, withResult))
          ELSE [ok |-> FALSE, value |-> res.value,
                ignoreProxy |-> res.ignoreProxy, operations |-> done]

(***************************************************************************)
(* State.  Each field of a Replicant is a function of the Replicant's      *)
(* name (all Replicants share one namespace and one socket).               *)
(***************************************************************************)
VARIABLES
  declaredReplicants,  \* names of the Replicants constructed on the socket
  subscriptions,       \* times registerSocketOperations subscribed, per name
  value,               \* Replicant.value
  revision,            \* Replicant.revision
  status,              \* Replicant.status
  actionQueue,         \* Replicant._actionQueue
  operationQueue,      \* Replicant._operationQueue
  ignoreProxy,         \* Replicant._ignoreProxy
  schema,              \* Replicant.schema
  schemaSum,           \* Replicant.schemaSum
  validator,           \* Replicant._validator (the schema it was compiled from)
  joinPending,         \* joinRoom requests awaiting their acknowledgement
  declarePending,      \* replicant:declare requests awaiting theirs
  readPending,         \* replicant:read requests awaiting theirs
  proposePending,      \* replicant:proposeAssignment requests awaiting theirs
  disconnects,         \* number of disconnect events so far
  sent,                \* messages emitted on the socket by the last step
  events,              \* events emitted to listeners by the last step
  threw,               \* the error the last step raised, or "none"
  last                 \* the step in progress: handler, Replicant, request
                       \* epoch, input, and the Replicants' fields before it

repVars == <<value, revision, status, actionQueue, operationQueue, ignoreProxy,
             schema, schemaSum, validator>>
netVars == <<joinPending, declarePending, readPending, proposePending>>
registry == <<declaredReplicants, subscriptions>>
vars == <<registry, repVars, netVars, disconnects, sent, events,
          threw, last>>

NoSchema == "none"
\* requests awaiting an acknowledgement after n more are emitted: beyond
\* MaxPending a request is one the server never acknowledges
Pending(count, n) == IF count + n > MaxPending THEN MaxPending ELSE count + n
\* an acknowledgement that carries no revision (data.revision === undefined)
NoRevision == 0 - 1

\* this._validator(value) for the schema {type: 'object'}: an object that is
\* not null and not an array; an undefined value is not required
Valid(sch, v) ==
  sch = "object" => v.t \in {"object", "undefined"}

Msg(type, name, v) == [type |-> type, name |-> name, value |-> v]
\* an emitted event; argc is the number of arguments emit() was given; the
\* arguments of a change event are kept, the payload of the others is not
Event(type, name, argc, newValue, oldValue, operations) ==
  [type |-> type, name |-> name, argc |-> argc, newValue |-> newValue,
   oldValue |-> oldValue, operations |-> operations]
\* the fields of the Replicants, as a handler finds them
Fields ==
  [value |-> value, revision |-> revision, status |-> status,
   actionQueue |-> actionQueue, operationQueue |-> operationQueue,
   ignoreProxy |-> ignoreProxy, schema |-> schema, schemaSum |-> schemaSum,
   validator |-> validator, declaredReplicants |-> declaredReplicants,
   subscriptions |-> subscriptions]
NoData == [none |-> TRUE]
Step(op, name, epoch, data) ==
  [op |-> op, name |-> name, epoch |-> epoch, data |-> data, pre |-> Fields]

\* the state of the constructed Replicants after construction (constructor,
\* lines 121-163): _declare has run and emitted joinRoom
InitFor(names) ==
  /\ declaredReplicants = names
  /\ subscriptions = [r \in Reps |-> IF r \in names THEN 1 ELSE 0]
  /\ value = [r \in Reps |-> Undef]
  /\ revision = [r \in Reps |-> 0]
  /\ status = [r \in Reps |-> IF r \in names THEN "declaring" ELSE "undeclared"]
  /\ actionQueue = [r \in Reps |-> << >>]
  /\ operationQueue = [r \in Reps |-> << >>]
  /\ ignoreProxy = [r \in Reps |-> FALSE]
  /\ schema = [r \in Reps |-> NoSchema]
  /\ schemaSum = [r \in Reps |-> NoSchema]
  /\ validator = [r \in Reps |-> NoSchema]
  /\ joinPending = [r \in Reps |-> IF r \in names THEN {0} ELSE {}]
  /\ declarePending = [r \in Reps |-> {}]
  /\ readPending = [r \in Reps |-> 0]
  /\ proposePending = [r \in Reps |-> 0]
  /\ disconnects = 0
  /\ sent = [i \in 1..Cardinality(names) |->
               Msg("joinRoom", IF i = 1 /\ "A" \in names THEN "A" ELSE "B", Undef)]
  /\ events = << >>
  /\ threw = "none"
  /\ last = [op |-> "constructor", name |-> "A", epoch |-> 0, data |-> NoData,
             pre |-> NoData]

Init == InitFor({"A"})

(***************************************************************************)
(* Replicant methods (part_001).                                           *)
(***************************************************************************)
\* _assignValue(newValue, revision): [ok, value, revision, events];
\* ok = FALSE when proxyRecursive threw, before anything was assigned
assignValue(r, newValue, rev) ==
  LET oldValue == clone(value[r])
      pr == proxyRecursive(r, newValue, <<"/">>)
  IN IF pr.ok
     THEN [ok |-> TRUE, value |-> pr.v,
           revision |-> IF rev # NoRevision THEN rev ELSE revision[r],
           events |-> <<Event("change", r, 2, pr.v, oldValue, << >>)>>]
     ELSE [ok |-> FALSE, value |-> value[r], revision |-> revision[r],
           events |-> << >>]

\* validate(value) with throwOnInvalid: TRUE when it returns, FALSE when it
\* throws
validate(r, v) ==
  validator[r] = NoSchema \/ Valid(validator[r], v)

\* the queued actions run last first
ReplayReversed(r, queue) ==
  [i \in 1..Len(queue) |->
     Msg("replicant:proposeAssignment", r, queue[Len(queue) + 1 - i].args[1])]
\* this._actionQueue.forEach(item => item.fn.apply(this, item.args)): the
\* messages _proposeAssignment emits for the queued actions, in order
Replay(r, queue) ==
  [i \in 1..Len(queue) |->
     Msg("replicant:proposeAssignment", r, queue[i].args[1])]

\* the event loop is idle: no handler is running
Idle == last.op = "idle"

\* the registry is never consulted
registeredNever(r) == FALSE
\* the registry has an instance for the name (lines 134-137)
registered(r) == r \in declaredReplicants

\* new Replicant(name, namespace, opts, socket): the constructor, _declare()
\* and registerSocketOperations() included
Construct(r) ==
  /\ Idle
  /\ last' = Step("new", r, disconnects, NoData)
  /\ events' = << >>
  /\ threw' = "none"
  /\ UNCHANGED <<declarePending, readPending, proposePending, disconnects>>
  /\ IF registered(r)
     THEN /\ sent' = << >>
          /\ UNCHANGED <<registry, repVars, joinPending>>
     ELSE /\ declaredReplicants' = declaredReplicants \cup {r}
          /\ subscriptions' = [subscriptions EXCEPT ![r] = @ + 1]
          /\ value' = [value EXCEPT ![r] = Undef]
          /\ revision' = [revision EXCEPT ![r] = 0]
          /\ status' = [status EXCEPT ![r] = "declaring"]
          /\ actionQueue' = [actionQueue EXCEPT ![r] = << >>]
          /\ operationQueue' = [operationQueue EXCEPT ![r] = << >>]
          /\ ignoreProxy' = [ignoreProxy EXCEPT ![r] = FALSE]
          /\ schema' = [schema EXCEPT ![r] = NoSchema]
          /\ schemaSum' = [schemaSum EXCEPT ![r] = NoSchema]
          /\ validator' = [validator EXCEPT ![r] = NoSchema]
          /\ joinPending' = [joinPending EXCEPT ![r] = @ \cup {disconnects}]
          /\ sent' = <<Msg("joinRoom", r, Undef)>>

\* the guard lets a second declare through while the first is in flight
declareReturnsEarlyOnlyDeclared(r) == status[r] = "declared"
\* the guard of _declare(): the call returns at once
declareReturnsEarly(r) == status[r] \in {"declared", "declaring"}

\* _declare(): a call on Replicant r, by the constructor's caller or by the
\* socket's reconnect event
Declare(r) ==
  /\ Idle
  /\ r \in declaredReplicants
  /\ IF declareReturnsEarly(r)
     THEN /\ UNCHANGED <<status, joinPending>>
          /\ sent' = << >>
     ELSE /\ status' = [status EXCEPT ![r] = "declaring"]
          /\ joinPending' = [joinPending EXCEPT ![r] = @ \cup {disconnects}]
          /\ sent' = <<Msg("joinRoom", r, Undef)>>
  /\ events' = << >>
  /\ threw' = "none"
  /\ last' = Step("_declare", r, disconnects, NoData)
  /\ UNCHANGED <<registry, value, revision, actionQueue,
                 operationQueue, ignoreProxy, schema, schemaSum, validator,
                 declarePending, readPending, proposePending, disconnects>>

\* the acknowledgement of joinRoom (line 267): emits replicant:declare
JoinRoomAck(r, epoch) ==
  /\ Idle
  /\ epoch \in joinPending[r]
  /\ joinPending' = [joinPending EXCEPT ![r] = @ \ {epoch}]
  /\ declarePending' = [declarePending EXCEPT ![r] = @ \cup {epoch}]
  /\ sent' = <<Msg("replicant:declare", r, Undef)>>
  /\ events' = << >>
  /\ threw' = "none"
  /\ last' = Step("joinRoomAck", r, epoch, NoData)
  /\ UNCHANGED <<registry, repVars, readPending, proposePending,
                 disconnects>>

\* the acknowledgement of replicant:declare (lines 275-329);
\* data = [rejectReason, value, revision, schema]; data.listening stands for
\* this.listenerCount('declarationRejected') > 0: listeners are added and
\* removed by the caller at any time
DeclareAck(r, epoch, data) ==
  /\ Idle
  /\ epoch \in declarePending[r]
  /\ declarePending' = [declarePending EXCEPT ![r] = @ \ {epoch}]
  /\ last' = Step("declareAck", r, epoch, data)
  /\ UNCHANGED <<registry, operationQueue, ignoreProxy, joinPending,
                 readPending, disconnects>>
  /\ IF data.rejectReason /\ ~data.listening
     THEN /\ threw' = "rejected"
          /\ sent' = << >>
          /\ events' = << >>
          /\ UNCHANGED <<value, revision, status, actionQueue, schema,
                         schemaSum, validator, proposePending>>
     ELSE
       LET rejected == IF data.rejectReason
                       THEN <<Event("declarationRejected", r, 1, Undef, Undef, << >>)>>
                       ELSE << >>
           differs == revision[r] # data.revision \/ ~equal(value[r], data.value)
           av == IF differs
                 THEN assignValue(r, data.value, data.revision)
                 ELSE [ok |-> TRUE, value |-> value[r],
                       revision |-> revision[r], events |-> << >>]
           declared == <<Event("declared", r, 1, Undef, Undef, << >>)>>
           change == IF av.value = Undef /\ av.revision = 0
                     THEN <<Event("change", r, 0, Undef, Undef, << >>)>>
                     ELSE << >>
       IN /\ status' = [status EXCEPT ![r] = "declared"]
          /\ IF ~av.ok
             THEN /\ threw' = "ownership"
                  /\ sent' = << >>
                  /\ events' = rejected
                  /\ UNCHANGED <<value, revision, actionQueue, schema,
                                 schemaSum, validator, proposePending>>
             ELSE /\ threw' = "none"
                  /\ value' = [value EXCEPT ![r] = av.value]
                  /\ revision' = [revision EXCEPT ![r] = av.revision]
                  /\ IF data.schema # NoSchema
                     THEN /\ schema' = [schema EXCEPT ![r] = data.schema]
                          /\ schemaSum' = [schemaSum EXCEPT ![r] = data.schema]
                          /\ validator' = [validator EXCEPT ![r] = data.schema]
                     ELSE UNCHANGED <<schema, schemaSum, validator>>
                  /\ events' = rejected \o av.events \o declared \o change
                  /\ sent' = Replay(r, actionQueue[r])
                  /\ proposePending' =
                       [proposePending EXCEPT
                          ![r] = Pending(@, Len(actionQueue[r]))]
                  /\ actionQueue' = [actionQueue EXCEPT ![r] = << >>]

\* replicant.value = newValue through the Replicant's Proxy (set trap, lines
\* 70-90); isCurrent: newValue is the very structure the Replicant holds
SetValue(r, newValue, isCurrent) ==
  /\ Idle
  /\ r \in declaredReplicants
  /\ isCurrent => newValue = value[r]
  /\ Len(actionQueue[r]) < MaxQueue
  /\ last' = Step("set", r, disconnects,
                  [newValue |-> newValue, isCurrent |-> isCurrent])
  /\ events' = << >>
  /\ UNCHANGED <<registry, revision, status, operationQueue,
                 ignoreProxy, schema, schemaSum, validator, joinPending,
                 declarePending, readPending, disconnects>>
  /\ IF ignoreProxy[r]
     THEN /\ value' = [value EXCEPT ![r] = newValue]
          /\ threw' = "none"
          /\ sent' = << >>
          /\ UNCHANGED <<actionQueue, proposePending>>
     ELSE IF (IF IsStruct(newValue) THEN isCurrent ELSE newValue = value[r])
     THEN /\ threw' = "none"
          /\ sent' = << >>
          /\ UNCHANGED <<value, actionQueue, proposePending>>
     ELSE IF ~validate(r, newValue)
     THEN /\ threw' = "validation"
          /\ sent' = << >>
          /\ UNCHANGED <<value, actionQueue, proposePending>>
     ELSE IF status[r] # "declared"
     THEN /\ actionQueue' =
               [actionQueue EXCEPT ![r] =
                  Append(@, [fn |-> "_proposeAssignment", args |-> <<newValue>>,
                             epoch |-> disconnects])]
          /\ threw' = "none"
          /\ sent' = << >>
          /\ UNCHANGED <<value, proposePending>>
     ELSE /\ sent' = <<Msg("replicant:proposeAssignment", r, newValue)>>
          /\ proposePending' = [proposePending EXCEPT ![r] = Pending(@, 1)]
          /\ threw' = "none"
          /\ UNCHANGED <<value, actionQueue>>

\* the acknowledgement of replicant:proposeAssignment (lines 243-256);
\* data = [rejectReason, schema]; data.listening stands for
\* this.listenerCount('assignmentRejected') > 0
ProposeAck(r, data) ==
  /\ Idle
  /\ proposePending[r] > 0
  /\ proposePending' = [proposePending EXCEPT ![r] = @ - 1]
  /\ IF data.schema # NoSchema
     THEN /\ schema' = [schema EXCEPT ![r] = data.schema]
          /\ schemaSum' = [schemaSum EXCEPT ![r] = data.schema]
     ELSE UNCHANGED <<schema, schemaSum>>
  /\ IF data.rejectReason
     THEN IF data.listening
          THEN /\ events' = <<Event("assignmentRejected", r, 1, Undef, Undef, << >>)>>
               /\ threw' = "none"
          ELSE /\ events' = << >>
               /\ threw' = "rejected"
     ELSE /\ events' = << >>
          /\ threw' = "none"
  /\ sent' = << >>
  /\ last' = Step("proposeAck", r, disconnects, data)
  /\ UNCHANGED <<registry, value, revision, status, actionQueue,
                 operationQueue, ignoreProxy, validator, joinPending,
                 declarePending, readPending, disconnects>>

\* _handleAssignment(data); data = [name, newValue, revision]
HandleAssignment(r, data) ==
  /\ Idle
  /\ r \in declaredReplicants
  /\ last' = Step("_handleAssignment", r, disconnects, data)
  /\ sent' = << >>
  /\ UNCHANGED <<registry, status, actionQueue, operationQueue,
                 ignoreProxy, schema, schemaSum, validator, netVars,
                 disconnects>>
  /\ IF data.name # r
     THEN /\ threw' = "none"
          /\ events' = << >>
          /\ UNCHANGED <<value, revision>>
     ELSE LET av == assignValue(r, data.newValue, data.revision)
          IN /\ value' = [value EXCEPT ![r] = av.value]
             /\ revision' = [revision EXCEPT ![r] = av.revision]
             /\ events' = av.events
             /\ threw' = IF av.ok THEN "none" ELSE "ownership"

\* batches are ignored only before the first declare
ignoresOperationsOnlyUndeclared(r) == status[r] = "undeclared"
\* if (this.status !== 'declared') return
ignoresOperations(r) == status[r] # "declared"

\* the batch is taken for the next one when it carries the local revision
expectedRevisionStale(r) == revision[r]
\* const expectedRevision = this.revision + 1
expectedRevision(r) == revision[r] + 1

RECURSIVE Bounded(_)
\* every array of the value has at most MaxLen elements
Bounded(v) ==
  IsStruct(v) =>
    /\ v.t = "array" => ArrLen(v) <= MaxLen
    /\ \A k \in DOMAIN v.f : Bounded(v.f[k])

\* _handleOperations(data); data = [name, revision, operations]
HandleOperations(r, data) ==
  /\ Idle
  /\ r \in declaredReplicants
  /\ last' = Step("_handleOperations", r, disconnects, data)
  /\ UNCHANGED <<registry, status, actionQueue, operationQueue,
                 schema, schemaSum, validator, joinPending, declarePending,
                 proposePending, disconnects>>
  /\ IF ignoresOperations(r) \/ data.name # r
     THEN /\ threw' = "none"
          /\ sent' = << >>
          /\ events' = << >>
          /\ UNCHANGED <<value, revision, ignoreProxy, readPending>>
     ELSE IF data.revision # expectedRevision(r)
     THEN \* _fullUpdate(): readReplicant emits replicant:read
          /\ readPending' = [readPending EXCEPT ![r] = Pending(@, 1)]
          /\ sent' = <<Msg("replicant:read", r, Undef)>>
          /\ threw' = "none"
          /\ events' = << >>
          /\ UNCHANGED <<value, revision, ignoreProxy>>
     ELSE LET oldValue == clone(value[r])
              res == ApplyAll(r, value[r], ignoreProxy[r], data.operations, << >>)
          IN /\ value' = [value EXCEPT ![r] = res.value]
             /\ ignoreProxy' = [ignoreProxy EXCEPT ![r] = res.ignoreProxy]
             /\ sent' = << >>
             /\ UNCHANGED readPending
             /\ IF res.ok
                THEN /\ revision' = [revision EXCEPT ![r] = data.revision]
                     /\ events' = <<Event("change", r, 3, res.value, oldValue,
                                          res.operations)>>
                     /\ threw' = "none"
                ELSE /\ UNCHANGED revision
                     /\ events' = << >>
                     /\ threw' = "applyOperation"
  /\ Bounded(value'[r])

\* the acknowledgement of replicant:read (_fullUpdate, lines 393-396);
\* data = [value, revision]
ReadAck(r, data) ==
  /\ Idle
  /\ readPending[r] > 0
  /\ readPending' = [readPending EXCEPT ![r] = @ - 1]
  /\ last' = Step("readAck", r, disconnects, data)
  /\ sent' = << >>
  /\ LET av == assignValue(r, data.value, data.revision)
         fullUpdate == <<Event("fullUpdate", r, 1, Undef, Undef, << >>)>>
     IN /\ value' = [value EXCEPT ![r] = av.value]
        /\ revision' = [revision EXCEPT ![r] = av.revision]
        /\ events' = fullUpdate \o av.events
        /\ threw' = IF av.ok THEN "none" ELSE "ownership"
  /\ UNCHANGED <<registry, status, actionQueue, operationQueue,
                 ignoreProxy, schema, schemaSum, validator, joinPending,
                 declarePending, proposePending, disconnects>>

\* the disconnect leaves the status alone
handleDisconnectKeepingStatus(r) ==
  [status |-> status[r], operationQueue |-> << >>, actionQueue |-> << >>]
\* the disconnect leaves the queued actions in place
handleDisconnectKeepingActions(r) ==
  [status |-> "undeclared", operationQueue |-> << >>,
   actionQueue |-> actionQueue[r]]
\* _handleDisconnect(): the fields it leaves
handleDisconnect(r) ==
  [status |-> "undeclared", operationQueue |-> << >>, actionQueue |-> << >>]

\* the socket's disconnect event: _handleDisconnect of every Replicant
Disconnect ==
  /\ Idle
  /\ disconnects < MaxDisconnects
  /\ disconnects' = disconnects + 1
  /\ status' = [r \in Reps |->
                  IF r \in declaredReplicants
                  THEN handleDisconnect(r).status ELSE status[r]]
  /\ operationQueue' = [r \in Reps |->
                  IF r \in declaredReplicants
                  THEN handleDisconnect(r).operationQueue ELSE operationQueue[r]]
  /\ actionQueue' = [r \in Reps |->
                  IF r \in declaredReplicants
                  THEN handleDisconnect(r).actionQueue ELSE actionQueue[r]]
  /\ sent' = << >>
  /\ events' = << >>
  /\ threw' = "none"
  /\ last' = Step("disconnect", "A", disconnects + 1, NoData)
  /\ UNCHANGED <<registry, value, revision, ignoreProxy, schema,
                 schemaSum, validator, netVars>>

\* the handler has returned to the event loop (handlers run to completion,
\* one at a time): its messages are on the wire, its listeners have run
Return ==
  /\ last.op # "idle"
  /\ last' = [op |-> "idle", name |-> "A", epoch |-> 0, data |-> NoData,
              pre |-> NoData]
  /\ sent' = << >>
  /\ events' = << >>
  /\ threw' = "none"
  /\ UNCHANGED <<registry, repVars, netVars, disconnects>>

(***************************************************************************)
(* Inputs: what the server, the socket and the caller may supply.          *)
(***************************************************************************)
Operation(path, method, prop, args) ==
  [path |-> path, method |-> method, prop |-> prop, args |-> args]

\* values as they arrive from the socket or the caller: fresh structures
Values ==
  {Undef, Null, RawObj([k \in {<<"a">>} |-> RawArr(EmptyF)])}
Revisions == 0..MaxRev
Schemas == {NoSchema, "object"}

push1 == Operation(<<"/", "a">>, "push", << >>, <<Num(1)>>)
addB == Operation(<<"/">>, "add", <<"b">>, <<Num(1)>>)
deleteB == Operation(<<"/">>, "delete", <<"b">>, << >>)
unknown == Operation(<<"/">>, "replace", <<"a">>, <<Num(1)>>)
Operations == {push1, addB, deleteB, unknown}
Batches ==
  {<< >>} \cup {<<o>> : o \in Operations}
          \cup {<<addB, deleteB>>, <<deleteB, addB>>, <<push1, push1>>,
                <<push1, unknown>>, <<unknown, push1>>, <<addB, push1>>}

DeclareData ==
  [rejectReason : {TRUE}, listening : BOOLEAN, value : {Undef},
   revision : {NoRevision}, schema : {NoSchema}]
  \cup [rejectReason : {FALSE}, listening : {FALSE}, value : Values,
        revision : Revisions, schema : Schemas]
ProposeData ==
  [rejectReason : {TRUE}, listening : BOOLEAN, schema : Schemas]
  \cup [rejectReason : {FALSE}, listening : {FALSE}, schema : Schemas]
\* pushes to the room: addressed to Replicant A, or (one of each) to another
AssignmentData ==
  [name : {"A"}, newValue : Values, revision : Revisions]
  \cup {[name |-> "B", newValue |-> Null, revision |-> 1]}
OperationsData ==
  [name : {"A"}, revision : Revisions, operations : Batches]
  \cup {[name |-> "B", revision |-> 1, operations |-> << >>]}
ReadData == [value : Values, revision : Revisions]

Next ==
  \/ \E r \in Reps :
       \/ Declare(r)
       \/ \E epoch \in 0..MaxDisconnects : JoinRoomAck(r, epoch)
       \/ \E epoch \in 0..MaxDisconnects, data \in DeclareData :
            DeclareAck(r, epoch, data)
       \/ \E v \in Values : SetValue(r, v, FALSE)
       \/ SetValue(r, value[r], TRUE)
       \/ \E data \in ProposeData : ProposeAck(r, data)
       \/ \E data \in AssignmentData : HandleAssignment(r, data)
       \/ \E data \in OperationsData : HandleOperations(r, data)
       \/ \E data \in ReadData : ReadAck(r, data)
  \/ \E r \in {"A"} : Construct(r)
  \/ Disconnect
  \/ Return

Spec == Init /\ [][Next]_vars

(***************************************************************************)
(* Two Replicants on one socket, the second constructed at any time after  *)
(* the first.  The handlers are handed structures that  *)
(* the other Replicant holds: the same objects, not copies (the socket is  *)
(* an object the caller supplies, and nothing makes it deserialise a fresh *)
(* value per handler).  The caller sets nothing here: the server alone    *)
(* moves the values.                                                       *)
(***************************************************************************)
InitOwn == InitFor({"A"})

\* a fresh structure
Fresh == RawObj([k \in {<<"a">>} |-> RawArr(EmptyF)])
\* what the other Replicants hold
Held(r) == {value[o] : o \in Reps \ {r}}
\* batches that add what another Replicant holds to the value of r
BatchesOwn(r) ==
  {<<Operation(<<"/">>, "add", <<"b">>, <<v>>)>> : v \in Held(r)}
    \cup {<<addB, Operation(<<"/">>, "update", <<"c">>, <<v>>)>> : v \in Held(r)}
    \cup {<<Operation(<<"/", "a">>, "push", << >>, <<v>>)>> : v \in Held(r)}

\* the handlers of Replicant r, handed a fresh structure or one that another
\* Replicant holds
DeclareAckOwn(r, epoch) ==
  \E v \in {Fresh} \cup Held(r) :
    DeclareAck(r, epoch, [rejectReason |-> FALSE, listening |-> FALSE,
                          value |-> v, revision |-> 0, schema |-> NoSchema])
HandleAssignmentOwn(r) ==
  \E v \in Held(r) :
    HandleAssignment(r, [name |-> r, newValue |-> v, revision |-> 0])
HandleOperationsOwn(r) ==
  \E ops \in BatchesOwn(r) :
    HandleOperations(r, [name |-> r, revision |-> 1, operations |-> ops])
ReadAckOwn(r) ==
  \E v \in Held(r) : ReadAck(r, [value |-> v, revision |-> 0])

NextOwn ==
  \/ \E r \in Reps :
       \/ Construct(r)
       \/ Declare(r)
       \/ \E epoch \in 0..MaxDisconnects : JoinRoomAck(r, epoch)
       \/ \E epoch \in 0..MaxDisconnects : DeclareAckOwn(r, epoch)
       \/ HandleAssignmentOwn(r)
       \/ HandleOperationsOwn(r)
       \/ ReadAckOwn(r)
  \/ Disconnect
  \/ Return

SpecOwn == InitOwn /\ [][NextOwn]_vars

(***************************************************************************)
(* The path codec on its own: the two conversions of shared.ts applied to  *)
(* path strings and to segment lists, before any Replicant is constructed. *)
(***************************************************************************)
InitPath == InitFor({})

PathChars == {"a", "/", "~", "1"}
\* the strings of at most n characters
Strings(n) == UNION {[1..k -> PathChars] : k \in 0..n}
\* a path string is well formed: a '/', then segments separated by '/', none
\* of them empty
WellFormed(p) ==
  /\ p # << >> /\ p[1] = "/"
  /\ Len(p) > 1 => \A i \in 1..Len(p) : p[i] = "/" => (i < Len(p) /\ p[i + 1] # "/")
PathStrings == {p \in Strings(MaxPathLen + 1) : WellFormed(p)}
\* lists of one or two segments, none of them empty
SegmentLists ==
  LET segs == Strings(MaxPathLen) \ {<< >>}
  IN {<<a>> : a \in segs} \cup {<<a, b>> : a \in segs, b \in {<<"a">>, <<"a", "/", "a">>}}

\* pathArrToPathStr(pathStrToPathArr(path))
StrToArrToStr(path) ==
  /\ Idle
  /\ last' = [op |-> "pathStrToPathArr", name |-> "A", epoch |-> 0,
              data |-> [path |-> path,
                        pathArr |-> pathStrToPathArr(path),
                        back |-> pathArrToPathStr(pathStrToPathArr(path))],
              pre |-> NoData]
  /\ UNCHANGED <<registry, repVars, netVars, disconnects, sent, events, threw>>

\* pathStrToPathArr(pathArrToPathStr(pathArr))
ArrToStrToArr(pathArr) ==
  /\ Idle
  /\ last' = [op |-> "pathArrToPathStr", name |-> "A", epoch |-> 0,
              data |-> [pathArr |-> pathArr,
                        path |-> pathArrToPathStr(pathArr),
                        back |-> pathStrToPathArr(pathArrToPathStr(pathArr))],
              pre |-> NoData]
  /\ UNCHANGED <<registry, repVars, netVars, disconnects, sent, events, threw>>

NextPath ==
  \/ \E path \in PathStrings : StrToArrToStr(path)
  \/ \E pathArr \in SegmentLists : ArrToStrToArr(pathArr)
  \/ Return

SpecPath == InitPath /\ [][NextPath]_vars

(***************************************************************************)
(* The interception traps of shared.ts, as a caller reaches them through   *)
(* replicant.value: a mutator called on a held array, a member deleted     *)
(* from a held structure.                                                  *)
(***************************************************************************)
\* replicant._addOperation(path, method, args): class Replicant (lines
\* 94-404) has no member of that name (the index signature [prop: string]:
\* any lets the reference compile, _operationQueue is never pushed to), so
\* the member reads as undefined and the call raises a TypeError:
\* [ok, operationQueue]
addOperation(replicant, path, method, prop, args) ==
  [ok |-> FALSE, operationQueue |-> operationQueue[replicant]]

\* deleteTrap(target, prop): [threw, target, operationQueue, result]; target
\* is the structure as the trap left it
deleteTrap(r, target, prop) ==
  IF target.owner = NoOwner
  THEN [threw |-> "none", target |-> target,
        operationQueue |-> operationQueue[r], result |-> FALSE]
  ELSE
    LET replicant == target.owner
        valueClone == clone(value[replicant])
        targetClone == PathGet(valueClone, pathStrToPathArr(target.path))
        deleted == IF IsStruct(targetClone)
                   THEN PathReplace(valueClone, pathStrToPathArr(target.path),
                          [targetClone EXCEPT !.f = Drop(targetClone.f, prop)])
                   ELSE valueClone
        added == addOperation(replicant, target.path, "delete", prop, << >>)
    IN IF ignoreProxy[replicant]
       THEN [threw |-> "none",
             target |-> [target EXCEPT !.f = Drop(target.f, prop)],
             operationQueue |-> operationQueue[r], result |-> TRUE]
       ELSE IF prop \in DOMAIN target.f
       THEN [threw |-> "none", target |-> target,
             operationQueue |-> operationQueue[r], result |-> TRUE]
       ELSE IF schema[replicant] # NoSchema
               /\ targetClone.t \in {"undefined", "null"}
       THEN [threw |-> "TypeError", target |-> target,
             operationQueue |-> operationQueue[r], result |-> FALSE]
       ELSE IF schema[replicant] # NoSchema /\ ~validate(replicant, deleted)
       THEN [threw |-> "validate", target |-> target,
             operationQueue |-> operationQueue[r], result |-> FALSE]
       ELSE [threw |-> IF added.ok THEN "none" ELSE "TypeError",
             target |-> target,
             operationQueue |-> added.operationQueue, result |-> added.ok]

\* target[prop](...args) for a mutator prop, through the get trap of
\* getChildArrayHandler: [threw, target, operationQueue]
arrayMutator(r, target, prop, args) ==
  IF target.owner = NoOwner
  THEN \* the trap returns undefined, which is then called
       [threw |-> "TypeError", target |-> target,
        operationQueue |-> operationQueue[r]]
  ELSE
    LET replicant == target.owner
        valueClone == clone(value[replicant])
        targetClone == PathGet(valueClone, pathStrToPathArr(target.path))
        applied == PathReplace(valueClone, pathStrToPathArr(target.path),
                               ArrayApply(targetClone, prop, args).arr)
        added == addOperation(replicant, target.path, prop, << >>, args)
    IN IF ignoreProxy[replicant]
       THEN \* target[prop] is Array.prototype[prop]: the array is mutated
            [threw |-> "none", target |-> ArrayApply(target, prop, args).arr,
             operationQueue |-> operationQueue[r]]
       ELSE IF schema[replicant] # NoSchema /\ targetClone.t # "array"
       THEN [threw |-> "TypeError", target |-> target,
             operationQueue |-> operationQueue[r]]
       ELSE IF schema[replicant] # NoSchema /\ ~validate(replicant, applied)
       THEN [threw |-> "validate", target |-> target,
             operationQueue |-> operationQueue[r]]
       ELSE [threw |-> IF added.ok THEN "none" ELSE "TypeError",
             target |-> target, operationQueue |-> added.operationQueue]

\* replicant.value<path>[method](...args) by the caller
ArrayMutatorCall(r, path, method, args) ==
  /\ Idle
  /\ r \in declaredReplicants
  /\ PathGet(value[r], path).t = "array"
  /\ method \in ARRAY_MUTATOR_METHODS
  /\ LET res == arrayMutator(r, PathGet(value[r], path), method, args)
     IN /\ value' = [value EXCEPT ![r] = PathReplace(@, path, res.target)]
        /\ operationQueue' = [operationQueue EXCEPT ![r] = res.operationQueue]
        /\ threw' = res.threw
  /\ last' = Step("arrayMutator", r, disconnects,
                  [path |-> path, method |-> method, args |-> args])
  /\ sent' = << >>
  /\ events' = << >>
  /\ UNCHANGED <<registry, revision, status, actionQueue, ignoreProxy, schema,
                 schemaSum, validator, netVars, disconnects>>
  /\ Bounded(value'[r])

\* delete replicant.value<path>[prop] by the caller
DeleteProperty(r, path, prop) ==
  /\ Idle
  /\ r \in declaredReplicants
  /\ IsStruct(PathGet(value[r], path))
  /\ LET res == deleteTrap(r, PathGet(value[r], path), prop)
     IN /\ value' = [value EXCEPT ![r] = PathReplace(@, path, res.target)]
        /\ operationQueue' = [operationQueue EXCEPT ![r] = res.operationQueue]
        /\ threw' = res.threw
  /\ last' = Step("deleteProperty", r, disconnects,
                  [path |-> path, prop |-> prop])
  /\ sent' = << >>
  /\ events' = << >>
  /\ UNCHANGED <<registry, revision, status, actionQueue, ignoreProxy, schema,
                 schemaSum, validator, netVars, disconnects>>

\* what the caller reaches: the root and its member a; the members it names
TrapPaths == {<< >>, << <<"a">> >>}
TrapProps == {<<"a">>, <<"b">>}
MutatorCalls ==
  {[method |-> "push", args |-> <<Num(1)>>], [method |-> "pop", args |-> << >>]}

NextTrap ==
  \/ \E r \in {"A"} :
       \/ \E epoch \in 0..MaxDisconnects : JoinRoomAck(r, epoch)
       \/ \E epoch \in 0..MaxDisconnects, data \in DeclareData :
            DeclareAck(r, epoch, data)
       \/ \E data \in OperationsData : HandleOperations(r, data)
       \/ \E path \in TrapPaths, call \in MutatorCalls :
            ArrayMutatorCall(r, path, call.method, call.args)
       \/ \E path \in TrapPaths, prop \in TrapProps : DeleteProperty(r, path, prop)
  \/ Return

SpecTrap == Init /\ [][NextTrap]_vars

(***************************************************************************)
(* Attaching listeners (part_001): on, which the class overrides, and      *)
(* addListener, which it inherits from EventEmitter.  events holds the     *)
(* calls made of the listener being attached, as the change events they    *)
(* look like to it.                                                        *)
(***************************************************************************)
\* actualListener(this.value, this.value, [])
ListenerCall(r) == Event("change", r, 3, value[r], value[r], << >>)

\* the newListener listener the constructor registers (lines 149-156), which
\* EventEmitter runs with (event, listener) before it adds a listener
newListener(r, event) ==
  IF event = "change" /\ status[r] = "declared" /\ Truthy(value[r])
  THEN <<ListenerCall(r)>>
  ELSE << >>

\* replicant.addListener(event, listener): EventEmitter emits newListener,
\* then registers the listener
AddListener(r, event) ==
  /\ Idle
  /\ r \in declaredReplicants
  /\ events' = newListener(r, event)
  /\ last' = Step("addListener", r, disconnects, [event |-> event])
  /\ sent' = << >>
  /\ threw' = "none"
  /\ UNCHANGED <<registry, repVars, netVars, disconnects>>

\* replicant.on(event, listener) (lines 218-227): the call of the listener
\* on makes itself, then EventEmitter.prototype.on
On(r, event) ==
  /\ Idle
  /\ r \in declaredReplicants
  /\ events' =
       (IF event = "change" /\ status[r] = "declared" /\ Truthy(value[r])
        THEN <<ListenerCall(r)>>
        ELSE << >>) \o newListener(r, event)
  /\ last' = Step("on", r, disconnects, [event |-> event])
  /\ sent' = << >>
  /\ threw' = "none"
  /\ UNCHANGED <<registry, repVars, netVars, disconnects>>

EventTypes == {"change", "declared"}

NextOn ==
  \/ \E r \in {"A"} :
       \/ Declare(r)
       \/ \E epoch \in 0..MaxDisconnects : JoinRoomAck(r, epoch)
       \/ \E epoch \in 0..MaxDisconnects, data \in DeclareData :
            DeclareAck(r, epoch, data)
       \/ \E data \in AssignmentData : HandleAssignment(r, data)
       \/ \E event \in EventTypes : On(r, event)
       \/ \E event \in EventTypes : AddListener(r, event)
  \/ Disconnect
  \/ Return

SpecOn == Init /\ [][NextOn]_vars

(***************************************************************************)
(* Properties.  A handler's step is visible in one state: last names the   *)
(* handler, its Replicant and its input, last.pre holds the fields as the  *)
(* handler found them, and sent, events and threw are what it produced.    *)
(***************************************************************************)
\* the step in progress is handler op on Replicant r
Ran(op, r) == last.op = op /\ last.name = r
\* the step in progress is any handler at all
Running == last.op \notin {"idle", "constructor"}
\* the fields of Replicant r are as the handler found them
SameFields(r) ==
  /\ value[r] = last.pre.value[r]
  /\ revision[r] = last.pre.revision[r]
  /\ status[r] = last.pre.status[r]
  /\ actionQueue[r] = last.pre.actionQueue[r]
  /\ operationQueue[r] = last.pre.operationQueue[r]

\* a step of _handleOperations on a declared Replicant, for a batch that is
\* addressed to it
BatchFor(r) ==
  /\ Ran("_handleOperations", r)
  /\ last.pre.status[r] = "declared"
  /\ last.data.name = r

RECURSIVE C2_InOrder(_, _, _)
\* the value after the operations ops were applied to v one after the other
C2_InOrder(r, v, ops) ==
  IF ops = << >> THEN v
  ELSE C2_InOrder(r, applyOperation(r, v, FALSE, Head(ops)).value, Tail(ops))
\* the operations ops, each with the result of applying it in its turn
C2_Applied(r, v, ops) ==
  [i \in 1..Len(ops) |->
     [path |-> ops[i].path, method |-> ops[i].method, prop |-> ops[i].prop,
      args |-> ops[i].args,
      result |-> applyOperation(r, C2_InOrder(r, v, SubSeq(ops, 1, i - 1)),
                                FALSE, ops[i]).result]]
\* what the claim promises of a batch at the head revision
C2_Effect(r) ==
  /\ value[r] = C2_InOrder(r, last.pre.value[r], last.data.operations)
  /\ revision[r] = last.pre.revision[r] + 1
  /\ events = <<Event("change", r, 3, value[r], clone(last.pre.value[r]),
                      C2_Applied(r, last.pre.value[r], last.data.operations))>>

C3_DeclareIdempotent ==
  \A r \in Reps :
    (Ran("_declare", r) /\ last.pre.status[r] \in {"declaring", "declared"}) =>
      /\ sent = << >>
      /\ Fields = last.pre

\* declare is called while a declare is in flight
C3_Witness ==
  /\ Ran("_declare", "A")
  /\ last.pre.status["A"] = "declaring"
  /\ sent = << >>

\* C4: the status changes only undeclared -> declaring (by declare),
\* declaring -> declared (by a declare acknowledgement) and declaring or
\* declared -> undeclared (by disconnect); never undeclared -> declared.
\* (A construction leaves a new Replicant declaring.)
C4_StatusTransitions ==
  \A r \in Reps :
    Running =>
      LET before == last.pre.status[r]
          after == status[r]
      IN \/ before = after
         \/ before = "undeclared" /\ after = "declaring"
              /\ (Ran("_declare", r) \/ Ran("new", r))
         \/ before = "declaring" /\ after = "declared" /\ Ran("declareAck", r)
         \/ before \in {"declaring", "declared"} /\ after = "undeclared"
              /\ last.op = "disconnect"

\* the acknowledgement of a declare issued before a disconnect arrives after it
C4_Witness ==
  /\ Ran("declareAck", "A")
  /\ last.epoch < disconnects
  /\ last.pre.status["A"] = "undeclared"

\* C5: the acknowledgement of a declare request issued before a disconnect,
\* arriving after it, executes no action that was queued before that
\* disconnect.
C5_StaleAckRunsNoStaleAction ==
  \A r \in Reps :
    (Ran("declareAck", r) /\ last.epoch < disconnects) =>
      \A i \in 1..Len(last.pre.actionQueue[r]) :
        (i <= Len(sent) /\ sent[i].type = "replicant:proposeAssignment") =>
          last.pre.actionQueue[r][i].epoch > last.epoch

\* a stale acknowledgement finds an action queued after the disconnect, and
\* runs it
C5_Witness ==
  /\ Ran("declareAck", "A")
  /\ last.epoch < disconnects
  /\ Len(last.pre.actionQueue["A"]) = 1
  /\ Len(sent) = 1

\* the messages the queued actions of q emit when run in queue order
C6_InQueueOrder(r, q) ==
  [i \in 1..Len(q) |-> Msg("replicant:proposeAssignment", r, q[i].args[1])]
\* outside a declare acknowledgement no queued action is executed or dropped,
\* but for the disconnect that discards them all
C6_QueueKept(r) ==
  (Running /\ ~Ran("declareAck", r) /\ last.op # "disconnect") =>
    /\ Len(actionQueue[r]) >= Len(last.pre.actionQueue[r])
    /\ SubSeq(actionQueue[r], 1, Len(last.pre.actionQueue[r]))
         = last.pre.actionQueue[r]
\* outside a declare acknowledgement the only proposal sent is the one of a
\* set on a declared Replicant
C6_NoOtherRun ==
  (Running /\ last.op # "declareAck"
     /\ \E i \in 1..Len(sent) : sent[i].type = "replicant:proposeAssignment") =>
    /\ last.op = "set"
    /\ sent = <<Msg("replicant:proposeAssignment", last.name,
                     last.data.newValue)>>

C7_ServerWinsAtDeclare ==
  \A r \in Reps :
    (Ran("declareAck", r) /\ ~last.data.rejectReason) =>
      /\ clone(value[r]) = clone(last.data.value)
      /\ revision[r] = last.data.revision

\* an acknowledgement replaces a value kept across a disconnect
C7_Witness ==
  /\ Ran("declareAck", "A")
  /\ ~last.data.rejectReason
  /\ disconnects > 0
  /\ IsStruct(last.pre.value["A"])
  /\ value["A"] = Null

\* C8: a set of a value other than the held one on a declared Replicant
\* proposes it, and the assignment the server pushes back emits exactly one
\* change event with the arguments (new value, old value, empty operations
\* list); a set of the held value emits nothing and proposes nothing.
C8_SetEmitsOneChange ==
  \A r \in Reps :
    /\ (Ran("set", r) /\ last.pre.status[r] = "declared") =>
         /\ events = << >>
         /\ IF last.data.isCurrent \/ last.data.newValue = last.pre.value[r]
            THEN sent = << >>
            ELSE threw = "none" =>
                   sent = <<Msg("replicant:proposeAssignment", r,
                                last.data.newValue)>>
    /\ (Ran("_handleAssignment", r) /\ last.data.name = r
          /\ last.pre.status[r] = "declared" /\ proposePending[r] > 0
          /\ last.data.newValue # last.pre.value[r]) =>
         /\ clone(value[r]) = clone(last.data.newValue)
         /\ events = <<Event("change", r, 3, value[r],
                              clone(last.pre.value[r]), << >>)>>

\* the server pushes an assignment of another value back to a declared
\* Replicant
C8_Witness ==
  /\ Ran("_handleAssignment", "A")
  /\ last.data.name = "A"
  /\ last.pre.status["A"] = "declared"
  /\ proposePending["A"] > 0
  /\ last.pre.value["A"] = Null
  /\ IsStruct(value["A"])
  /\ Len(events) = 1

\* C9: with a validator in place, a set of a value (other than the held one)
\* that fails it raises an error at the call, sends no proposal, queues no
\* action and leaves value, revision and status as they were.
C9_InvalidSetRejected ==
  \A r \in Reps :
    (Ran("set", r) /\ last.pre.validator[r] # NoSchema
       /\ ~Valid(last.pre.validator[r], last.data.newValue)
       /\ last.data.newValue # last.pre.value[r]) =>
      /\ threw = "validation"
      /\ sent = << >>
      /\ SameFields(r)

\* a set of a value that fails the validator is refused
C9_Witness ==
  /\ Ran("set", "A")
  /\ last.pre.validator["A"] = "object"
  /\ last.data.newValue = Null
  /\ threw = "validation"

RECURSIVE C10_Foreign(_, _)
\* v holds a structure that a Replicant other than r owns
C10_Foreign(r, v) ==
  /\ IsStruct(v)
  /\ \/ v.owner \notin {r, NoOwner}
     \/ \E k \in DOMAIN v.f : C10_Foreign(r, v.f[k])
\* the step in progress attaches to r a structure another Replicant owns: an
\* assignment, a declare reconciliation, a full update, or an add or update
\* operation of a batch that is applied
C10_Attach(r) ==
  \/ Ran("_handleAssignment", r) /\ last.data.name = r
       /\ C10_Foreign(r, last.data.newValue)
  \/ Ran("declareAck", r) /\ ~last.data.rejectReason
       /\ C10_Foreign(r, last.data.value)
  \/ Ran("readAck", r) /\ C10_Foreign(r, last.data.value)
  \/ BatchFor(r) /\ last.data.revision = last.pre.revision[r] + 1
       /\ Truthy(last.pre.value[r])
       /\ \E i \in 1..Len(last.data.operations) :
            /\ last.data.operations[i].method \in {"add", "update"}
            /\ C10_Foreign(r, last.data.operations[i].args[1])

\* C10: no Replicant holds a structure that another owns, and an attempt to
\* attach one fails with an error and leaves the value, revision and status
\* of every Replicant as they were.
C10_SingleOwner ==
  \A r \in Reps :
    /\ ~C10_Foreign(r, value[r])
    /\ C10_Attach(r) =>
         /\ threw # "none"
         /\ \A o \in Reps :
              /\ value[o] = last.pre.value[o]
              /\ revision[o] = last.pre.revision[o]
              /\ status[o] = last.pre.status[o]

\* an assignment of the structure Replicant A holds to Replicant B is refused
C10_Witness ==
  /\ Ran("_handleAssignment", "B")
  /\ last.data.newValue = value["A"]
  /\ IsStruct(value["A"])
  /\ threw = "ownership"
  /\ value["B"] = last.pre.value["B"]

\* the change events among the events of the step
ChangeEvents == SelectSeq(events, LAMBDA e : e.type = "change")

\* C11: a declare acknowledgement that reports value undefined and revision 0
\* leaves the status declared and emits exactly one change event, whatever
\* the Replicant held before.
C11_EmptyDeclareEmitsOneChange ==
  \A r \in Reps :
    (Ran("declareAck", r) /\ ~last.data.rejectReason
       /\ last.data.value = Undef /\ last.data.revision = 0) =>
      /\ status[r] = "declared"
      /\ Len(ChangeEvents) = 1

\* a fresh Replicant is acknowledged with no value: one change event
C11_Witness ==
  /\ Ran("declareAck", "A")
  /\ ~last.data.rejectReason
  /\ last.data.value = Undef /\ last.data.revision = 0
  /\ last.pre.value["A"] = Undef /\ last.pre.revision["A"] = 0
  /\ status["A"] = "declared"
  /\ Len(ChangeEvents) = 1

\* C13: the revision is a non-negative integer, 0 at first, that no step
\* decreases.
C13_RevisionMonotonic ==
  \A r \in Reps :
    /\ revision[r] \in Nat
    /\ last.op = "constructor" => revision[r] = 0
    /\ Running => revision[r] >= last.pre.revision[r]

\* an operations batch moves the revision up by one
C13_Witness ==
  /\ BatchFor("A")
  /\ threw = "none"
  /\ revision["A"] = last.pre.revision["A"] + 1

\* C14: a disconnect sets the status of every Replicant of the socket to
\* undeclared and empties its action queue and its operation queue; value,
\* revision, schema and schemaSum stay.
C14_DisconnectFrame ==
  \A r \in declaredReplicants :
    last.op = "disconnect" =>
      /\ status[r] = "undeclared"
      /\ actionQueue[r] = << >>
      /\ operationQueue[r] = << >>
      /\ value[r] = last.pre.value[r]
      /\ revision[r] = last.pre.revision[r]
      /\ schema[r] = last.pre.schema[r]
      /\ schemaSum[r] = last.pre.schemaSum[r]

\* a disconnect finds a declaring Replicant with a queued action and a value
C14_Witness ==
  /\ last.op = "disconnect"
  /\ last.pre.status["A"] = "declaring"
  /\ last.pre.actionQueue["A"] # << >>
  /\ IsStruct(value["A"])
  /\ status["A"] = "undeclared"

\* C15: an operations batch that arrives while the status is undeclared or
\* declaring changes nothing, emits no event and sends no request, whatever
\* its revision.
C15_BatchIgnoredUnlessDeclared ==
  \A r \in Reps :
    (Ran("_handleOperations", r) /\ last.pre.status[r] # "declared") =>
      /\ Fields = last.pre
      /\ events = << >>
      /\ sent = << >>
      /\ threw = "none"

\* a batch at the head revision that would change the value arrives while the
\* Replicant is declaring
C15_Witness ==
  /\ Ran("_handleOperations", "A")
  /\ last.pre.status["A"] = "declaring"
  /\ last.data.name = "A"
  /\ last.data.revision = last.pre.revision["A"] + 1
  /\ last.data.operations = <<addB>>
  /\ IsStruct(last.pre.value["A"])

\* C16: a set of a valid value other than the held one, made while the
\* Replicant is not declared, sends nothing and is queued; and every
\* replicant:proposeAssignment is sent while the status is declared.
C16_SetQueuedUntilDeclared ==
  \A r \in Reps :
    /\ (Ran("set", r) /\ last.pre.status[r] # "declared"
          /\ ~last.data.isCurrent
          /\ last.data.newValue # last.pre.value[r]
          /\ (last.pre.validator[r] # NoSchema =>
                Valid(last.pre.validator[r], last.data.newValue))) =>
         /\ sent = << >>
         /\ actionQueue[r] =
              Append(last.pre.actionQueue[r],
                     [fn |-> "_proposeAssignment",
                      args |-> <<last.data.newValue>>,
                      epoch |-> last.epoch])
    /\ \A i \in 1..Len(sent) :
         (sent[i].type = "replicant:proposeAssignment" /\ sent[i].name = r) =>
           status[r] = "declared"

\* a set made while the Replicant is declaring is queued
C16_Witness ==
  /\ Ran("set", "A")
  /\ last.pre.status["A"] = "declaring"
  /\ Len(actionQueue["A"]) = Len(last.pre.actionQueue["A"]) + 1
  /\ sent = << >>

\* C19: between handlers (no Apply-Operation in progress) the suppression
\* flag of every Replicant is clear, also after an Apply-Operation that
\* raised an error.
C19_SuppressionFlagClear ==
  \A r \in Reps : ignoreProxy[r] = FALSE

\* a batch whose operation raised an error has been handled
C19_Witness ==
  /\ BatchFor("A")
  /\ threw = "applyOperation"
  /\ last.data.operations = <<unknown>>
  /\ IsStruct(last.pre.value["A"])

\* C12: the registry holds at most one Replicant per name: a construction for
\* a name that has one returns it, sends no request, subscribes to nothing
\* more and leaves every field of the instance as it was.
C12_SecondConstructionReturnsFirst ==
  \A r \in Reps :
    /\ subscriptions[r] <= 1
    /\ (Ran("new", r) /\ r \in last.pre.declaredReplicants) =>
         /\ sent = << >>
         /\ events = << >>
         /\ Fields = last.pre

\* a Replicant that is declared, holds a value and has a proposal in flight is
\* constructed again
C12_Witness ==
  /\ Ran("new", "A")
  /\ "A" \in last.pre.declaredReplicants
  /\ status["A"] = "declared"
  /\ IsStruct(value["A"])
  /\ revision["A"] > 0
  /\ sent = << >>

\* C18: a well-formed path string survives the conversion to segments and
\* back, the root path and a path with the escape ~1 included; a segment
\* list with a '/' inside a segment survives the conversion to a path string
\* and back.
C18_PathRoundTrip ==
  /\ last.op = "pathStrToPathArr" => last.data.back = last.data.path
  /\ (last.op = "pathArrToPathStr"
        /\ \E i \in 1..Len(last.data.pathArr) :
             \E j \in 1..Len(last.data.pathArr[i]) :
               last.data.pathArr[i][j] = "/") =>
       last.data.back = last.data.pathArr

\* a path of two plain segments makes the round trip
C18_Witness ==
  /\ last.op = "pathStrToPathArr"
  /\ last.data.path = <<"/", "a", "/", "1">>
  /\ last.data.pathArr = << <<"a">>, <<"1">> >>
  /\ last.data.back = last.data.path

\* the structure a trap step was invoked on, as the step found it
TrapTarget(r) == PathGet(last.pre.value[r], last.data.path)

\* a mutator invoked on a wrapped array of a declared Replicant, suppression
\* inactive, records the one operation and leaves value and array alone
C17_Recorded(r) ==
  (/\ Ran("arrayMutator", r)
   /\ last.pre.status[r] = "declared"
   /\ ~last.pre.ignoreProxy[r]
   /\ TrapTarget(r).owner # NoOwner) =>
    /\ operationQueue[r] =
         Append(last.pre.operationQueue[r],
                Operation(TrapTarget(r).path, last.data.method, << >>,
                          last.data.args))
    /\ value[r] = last.pre.value[r]

\* a push applied through Apply-Operation leaves the array with the
\* arguments appended to its previous contents
C17_Applied(r) ==
  (/\ BatchFor(r)
   /\ threw = "none"
   /\ last.data.revision = last.pre.revision[r] + 1
   /\ last.data.operations = <<push1>>) =>
    LET path == pathStrToPathArr(push1.path)
    IN Elements(PathGet(value[r], path)) =
         Elements(PathGet(last.pre.value[r], path)) \o push1.args

\* C17: an array mutator invoked on a wrapped array at path P of a declared
\* Replicant, suppression inactive, records exactly one operation {path: P,
\* method, args} and does not change the array; the array changes when the
\* operation is applied through Apply-Operation, and then equals the result
\* of the mutator on the previous contents.
C17_MutatorRecordsOperation ==
  \A r \in Reps : C17_Recorded(r) /\ C17_Applied(r)

\* push(1) has been invoked on the array at /a of a declared Replicant whose
\* suppression flag is clear
C17_Witness ==
  /\ Ran("arrayMutator", "A")
  /\ last.pre.status["A"] = "declared"
  /\ ~last.pre.ignoreProxy["A"]
  /\ last.data.method = "push"
  /\ TrapTarget("A").path = <<"/", "a">>
  /\ TrapTarget("A").owner = "A"

\* C20: deleting a member that exists on a wrapped structure at path P,
\* suppression inactive, records exactly one delete operation {path: P,
\* method: delete, args: {prop}}; a delete through a node without metadata
\* records nothing.
C20_DeleteRecorded ==
  \A r \in Reps :
    Ran("deleteProperty", r) =>
      /\ (/\ TrapTarget(r).owner # NoOwner
          /\ ~last.pre.ignoreProxy[r]
          /\ last.data.prop \in DOMAIN TrapTarget(r).f) =>
           operationQueue[r] =
             Append(last.pre.operationQueue[r],
                    Operation(TrapTarget(r).path, "delete", last.data.prop, << >>))
      /\ TrapTarget(r).owner = NoOwner =>
           operationQueue[r] = last.pre.operationQueue[r]

\* the member a, which exists, has been deleted from the wrapped root of a
\* Replicant whose suppression flag is clear
C20_Witness ==
  /\ Ran("deleteProperty", "A")
  /\ ~last.pre.ignoreProxy["A"]
  /\ TrapTarget("A").owner = "A"
  /\ TrapTarget("A").path = <<"/">>
  /\ last.data.prop = <<"a">>
  /\ <<"a">> \in DOMAIN TrapTarget("A").f

\* C21: every replicant:proposeAssignment message sent carries a value that
\* passes the schema active on its Replicant at the moment of sending, the
\* queued sets replayed by a declare acknowledgement that supplied a schema
\* and the sets made after a proposal acknowledgement supplied one included.
C21_ProposedValuePassesSchema ==
  \A i \in DOMAIN sent :
    sent[i].type = "replicant:proposeAssignment" =>
      Valid(schema[sent[i].name], sent[i].value)

\* a set on a declared Replicant with an active schema has proposed a value
\* that passes it
C21_Witness ==
  /\ Ran("set", "A")
  /\ last.pre.status["A"] = "declared"
  /\ schema["A"] = "object"
  /\ sent = <<Msg("replicant:proposeAssignment", "A", last.data.newValue)>>
  /\ Valid("object", last.data.newValue)

\* C22: the application of an accepted operations batch is all or nothing:
\* if applying one of its operations fails, the value is the one before the
\* batch and the revision is not advanced; otherwise every operation is
\* applied and the revision is advanced.
C22_BatchAllOrNothing ==
  \A r \in Reps :
    (BatchFor(r) /\ last.data.revision = last.pre.revision[r] + 1) =>
      IF threw # "none"
      THEN /\ value[r] = last.pre.value[r]
           /\ revision[r] = last.pre.revision[r]
      ELSE /\ value[r] = C2_InOrder(r, last.pre.value[r], last.data.operations)
           /\ revision[r] = last.data.revision

\* a batch at the head revision whose second operation fails, after a first
\* one that could be applied, has been handled
C22_Witness ==
  /\ BatchFor("A")
  /\ last.data.revision = last.pre.revision["A"] + 1
  /\ last.data.operations = <<push1, unknown>>
  /\ PathGet(last.pre.value["A"], pathStrToPathArr(push1.path)).t = "array"
  /\ threw = "applyOperation"

\* C23: attaching a change observer to a Replicant that is declared and
\* holds a value invokes the observer exactly once at attachment, with
\* (current value, current value, empty operations list); attaching it while
\* the Replicant is not declared invokes it zero times.
C23_ObserverReplayedOnce ==
  \A r \in Reps :
    ((Ran("on", r) \/ Ran("addListener", r)) /\ last.data.event = "change") =>
      /\ (last.pre.status[r] = "declared" /\ Truthy(last.pre.value[r])) =>
           events = <<Event("change", r, 3, last.pre.value[r],
                            last.pre.value[r], << >>)>>
      /\ last.pre.status[r] # "declared" => events = << >>

\* a change observer has been attached with on to a declared Replicant that
\* holds an object
C23_Witness ==
  /\ Ran("on", "A")
  /\ last.data.event = "change"
  /\ last.pre.status["A"] = "declared"
  /\ last.pre.value["A"].t = "object"
  /\ events # << >>

====
